---------------------------- MODULE Spec2Model ----------------------------
(***************************************************************************)
(* api/chat.ts: a single serverless handler that rate-limits per client    *)
(* IP with an in-memory fixed-window counter, authenticates with a shared  *)
(* bearer secret, validates the body and proxies the message to an         *)
(* upstream chat-completion API.                                           *)
(*                                                                         *)
(* JavaScript values are tagged records (JsUndefined, JsNull, Str, Num);   *)
(* a JavaScript string is a sequence of one-character strings, so that     *)
(* startsWith / replace / split are computed as the runtime computes them. *)
(***************************************************************************)
EXTENDS Integers, Sequences, FiniteSets, TLC

VARIABLES
    rateLimitMap,   \* chat.ts:4   Map<string, {count, resetTime}>
    now,            \* Date.now() as read by checkRateLimit
    env,            \* process.env: BETA_API_KEY, OPENAI_API_KEY
    inv,            \* handler invocations: position, request, response so far
    window,         \* history: per client key, the current fixed window
                    \* (its first request's time, requests checked in it,
                    \* requests admitted in it)
    admits          \* history, kept when admits.on: how many requests of
                    \* each client key the rate check admitted at each time

vars == <<rateLimitMap, now, env, inv, window, admits>>

----------------------------------------------------------------------------
(* Bounds of the model.  RATE_LIMIT in chat.ts is { maxRequests: 100,      *)
(* windowMs: 3600000 }; the handler reads both only through these two      *)
(* names, and every property below is stated in terms of them, so the      *)
(* model runs the same code with a window of a few requests and a few      *)
(* clock ticks.                                                            *)
maxRequests == 2

windowMs == 2

MaxNow == 3

NumProcs == 2

----------------------------------------------------------------------------
(* JavaScript values *)

JsUndefined == [t |-> "undefined", s |-> <<>>, n |-> 0]

JsNull == [t |-> "null", s |-> <<>>, n |-> 0]

Str(s) == [t |-> "string", s |-> s, n |-> 0]

Num(n) == [t |-> "number", s |-> <<>>, n |-> n]

\* ToBoolean: what `!v`, `a || b` test
Truthy(v) ==
    CASE v.t = "string" -> v.s # <<>>
      [] v.t = "number" -> v.n # 0
      [] OTHER -> FALSE

\* a || b
Or(a, b) == IF Truthy(a) THEN a ELSE b

\* String.prototype.startsWith
StartsWith(s, p) == Len(s) >= Len(p) /\ SubSeq(s, 1, Len(p)) = p

\* String.prototype.indexOf, 1-based; 0 when p does not occur in s
IndexOf(s, p) ==
    LET hits == {i \in 1..(Len(s) - Len(p) + 1) : SubSeq(s, i, i + Len(p) - 1) = p}
    IN  IF hits = {} THEN 0 ELSE CHOOSE i \in hits : \A j \in hits : i <= j

\* String.prototype.replace with a string pattern: the first occurrence only
Replace(s, p, r) ==
    LET i == IndexOf(s, p)
    IN  IF i = 0 THEN s
        ELSE SubSeq(s, 1, i - 1) \o r \o SubSeq(s, i + Len(p), Len(s))

\* s.split(sep)[0] for a one-character separator
SplitFirst(s, sep) ==
    LET i == IndexOf(s, <<sep>>)
    IN  IF i = 0 THEN s ELSE SubSeq(s, 1, i - 1)

Bearer == <<"B", "e", "a", "r", "e", "r", " ">>


----------------------------------------------------------------------------
(* The rate limiter, chat.ts:3-46 *)

\* new Map()
EmptyMap == [k \in {} |-> 0]

\* Map.prototype.set
MapSet(m, k, v) == [x \in (DOMAIN m) \cup {k} |-> IF x = k THEN v ELSE m[x]]

\* variant: an entry, once created, is never replaced
WindowExpired_NeverRolls(map, ip, t) == ip \notin DOMAIN map

\* variant: the window ends when the clock reaches resetTime
WindowExpired_AtReset(map, ip, t) ==
    ip \notin DOMAIN map \/ t >= map[ip].resetTime

\* chat.ts:20  `!entry || now > entry.resetTime`
WindowExpired(map, ip, t) == ip \notin DOMAIN map \/ t > map[ip].resetTime

\* variant: `>` for `>=`
LimitExceeded_OffByOne(entry) == entry.count > maxRequests

\* chat.ts:28  `entry.count >= RATE_LIMIT.maxRequests`
LimitExceeded(entry) == entry.count >= maxRequests

\* chat.ts:21-24  the entry of a new window
FreshEntry(t) == [count |-> 0, resetTime |-> t + windowMs]

\* variant: remaining computed from the count before the increment
AllowedResult_BeforeIncrement(entry) ==
    [allowed |-> TRUE, remaining |-> maxRequests - (entry.count - 1),
     resetTime |-> entry.resetTime]

\* chat.ts:41-45  what an allowed check returns
AllowedResult(entry) ==
    [allowed |-> TRUE, remaining |-> maxRequests - entry.count,
     resetTime |-> entry.resetTime]

\* chat.ts:30-34  what a denied check returns
DeniedResult(entry) ==
    [allowed |-> FALSE, remaining |-> 0, resetTime |-> entry.resetTime]

\* variant: the count is incremented before the limit is tested, so a
\* denied request is counted too
checkRateLimit_CountsDenied(ip, t, map) ==
    LET entry == IF WindowExpired(map, ip, t) THEN FreshEntry(t) ELSE map[ip]
        counted == [entry EXCEPT !.count = @ + 1]
    IN  IF LimitExceeded(entry)
        THEN [map |-> MapSet(map, ip, counted), result |-> DeniedResult(entry)]
        ELSE [map |-> MapSet(map, ip, counted), result |-> AllowedResult(counted)]

\* variant: the count written is one more than that of a new entry, not of
\* the entry read
checkRateLimit_LosesUpdate(ip, t, map) ==
    LET entry == IF WindowExpired(map, ip, t) THEN FreshEntry(t) ELSE map[ip]
    IN  IF LimitExceeded(entry)
        THEN [map |-> MapSet(map, ip, entry), result |-> DeniedResult(entry)]
        ELSE LET counted == [entry EXCEPT !.count = 1]
             IN  [map |-> MapSet(map, ip, counted),
                  result |-> AllowedResult(counted)]

\* variant: a denial restarts the window's clock
checkRateLimit_DenialExtends(ip, t, map) ==
    LET entry == IF WindowExpired(map, ip, t) THEN FreshEntry(t) ELSE map[ip]
    IN  IF LimitExceeded(entry)
        THEN LET pushed == [entry EXCEPT !.resetTime = t + windowMs]
             IN  [map |-> MapSet(map, ip, pushed), result |-> DeniedResult(pushed)]
        ELSE LET counted == [entry EXCEPT !.count = @ + 1]
             IN  [map |-> MapSet(map, ip, counted),
                  result |-> AllowedResult(counted)]

\* variant: an expired window empties the whole map
checkRateLimit_ClearsOnExpiry(ip, t, map) ==
    LET expired == ip \in DOMAIN map /\ t > map[ip].resetTime
        kept == IF expired THEN EmptyMap ELSE map
        entry == IF WindowExpired(map, ip, t) THEN FreshEntry(t) ELSE map[ip]
    IN  IF LimitExceeded(entry)
        THEN [map |-> MapSet(kept, ip, entry), result |-> DeniedResult(entry)]
        ELSE LET counted == [entry EXCEPT !.count = @ + 1]
             IN  [map |-> MapSet(kept, ip, counted),
                  result |-> AllowedResult(counted)]

\* chat.ts:12-46; t is Date.now().  Returns the map after the call and the
\* value returned.
checkRateLimit(ip, t, map) ==
    LET entry == IF WindowExpired(map, ip, t) THEN FreshEntry(t) ELSE map[ip]
    IN  IF LimitExceeded(entry)
        THEN [map |-> MapSet(map, ip, entry), result |-> DeniedResult(entry)]
        ELSE LET counted == [entry EXCEPT !.count = @ + 1]
             IN  [map |-> MapSet(map, ip, counted),
                  result |-> AllowedResult(counted)]

----------------------------------------------------------------------------
(* The request, the response and the position of one handler invocation *)

Procs == 1..NumProcs

NoHeaders == [h \in {} |-> 0]

\* res.setHeader
SetHeader(hs, name, v) ==
    [x \in (DOMAIN hs) \cup {name} |-> IF x = name THEN v ELSE hs[x]]

NoResult == [allowed |-> FALSE, remaining |-> -1, resetTime |-> -1]

NoEntry == [count |-> -1, resetTime |-> -1]

NoError == [name |-> "", message |-> "", status |-> 0]

NoBody == [pending |-> TRUE]

\* What `await fetch(...)` gave: nothing yet, a rejection, or a Response
NoFetch == [kind |-> "none", ok |-> FALSE, status |-> 0]

\* What `await response.json()` gave: nothing yet, a rejection, or the data
NoData == [hasChoices |-> FALSE, choices |-> <<>>]

NoJson == [kind |-> "none", data |-> NoData]

NoRequest ==
    [method |-> "",
     headers |-> [xForwardedFor |-> JsUndefined, xRealIp |-> JsUndefined,
                  authorization |-> JsUndefined],
     remoteAddress |-> JsUndefined,
     body |-> [t |-> "undefined", message |-> JsUndefined]]

\* An invocation that has not started
Idle ==
    [pc |-> "idle", req |-> NoRequest, clientIP |-> JsUndefined,
     rateLimitResult |-> NoResult, headers |-> NoHeaders,
     status |-> 0, body |-> NoBody, fetchCalls |-> <<>>, caught |-> NoError,
     fetched |-> NoFetch, parsed |-> NoJson,
     sent |-> 0, at |-> -1, pre |-> NoEntry, nth |-> 0]

\* variant: the whole x-forwarded-for header is the key
ForwardedFirst_WholeHeader(req) ==
    LET xff == req.headers.xForwardedFor
    IN  IF xff.t = "string" THEN Str(xff.s) ELSE JsUndefined

\* chat.ts:54-57  the client key
ForwardedFirst(req) ==
    LET xff == req.headers.xForwardedFor
    IN  IF xff.t = "string" THEN Str(SplitFirst(xff.s, ",")) ELSE JsUndefined

clientIPOf(req) ==
    Or(Or(Or(ForwardedFirst(req), req.headers.xRealIp), req.remoteAddress),
       Str(<<"u", "n", "k", "n", "o", "w", "n">>))

\* variant: only the presence of the header is tested
AuthHeaderMissing_NoSchemeTest(authHeader) == ~Truthy(authHeader)

\* chat.ts:80  `!authHeader || !authHeader.startsWith('Bearer ')`
AuthHeaderMissing(authHeader) ==
    ~Truthy(authHeader) \/ ~StartsWith(authHeader.s, Bearer)

\* chat.ts:84  authHeader.replace('Bearer ', '')
ProvidedKey(authHeader) == Str(Replace(authHeader.s, Bearer, <<>>))

\* chat.ts:85  `providedKey !== expectedKey`
KeyMismatch(providedKey, expectedKey) == providedKey # expectedKey

\* `${v}`: String(v) inside a template literal
TemplateString(v) ==
    CASE v.t = "string" -> v.s
      [] v.t = "undefined" -> <<"u", "n", "d", "e", "f", "i", "n", "e", "d">>
      [] v.t = "null" -> <<"n", "u", "l", "l">>
      [] OTHER -> <<v.n>>

SystemPrompt ==
    "Task: Translate between Mexican Spanish and English for flashcard study. For Spanish input, provide the English meaning. For English input, provide the most common Mexican Spanish translation. Tone: Use everyday, conversational Mexican Spanish words and phrases that are commonly used in daily life. Avoid formal, literary, or regional variants from other Spanish-speaking countries. Rules: - Keep responses brief and direct - ideal for quick flashcard review - Do not repeat the original term in your response - Use only the most common Mexican Spanish words - Provide single, clear translations without explanations"

\* chat.ts:97-118  the arguments of the fetch call
FetchCall(message, e) ==
    [url |-> "https://api.openai.com/v1/chat/completions",
     method |-> "POST",
     headers |-> [contentType |-> "application/json",
                  authorization |-> Bearer \o TemplateString(e.OPENAI_API_KEY)],
     body |-> [model |-> "gpt-5-mini",
               messages |-> << [role |-> "system", content |-> SystemPrompt],
                               [role |-> "user", content |-> message] >>,
               max_tokens |-> 500,
               temperature |-> "0.7"]]


----------------------------------------------------------------------------
(* The handler, chat.ts:48-136.  Everything up to the first await runs     *)
(* without interruption (HandlerStart); the invocation is then suspended   *)
(* at `await fetch(...)` and, when that resolves ok, at                    *)
(* `await response.json()`.                                                *)

\* res.status(code).json(body): the invocation is over
Respond(slot, code, body) ==
    [slot EXCEPT !.pc = "done", !.status = code, !.body = body,
                 !.sent = @ + 1]

\* new Date(t).toISOString(): the rendering of epoch-milliseconds t
ToISOString(t) == [iso8601 |-> t]

\* chat.ts:63-68
RateLimitedBody(result) ==
    [error |-> "Rate limit exceeded",
     message |-> <<"Too many requests. Rate limit resets at ",
                   ToISOString(result.resetTime)>>,
     resetTime |-> result.resetTime]

\* chat.ts:72-74
RateLimitHeaders(hs, result) ==
    SetHeader(SetHeader(SetHeader(hs,
        "X-RateLimit-Limit", maxRequests),
        "X-RateLimit-Remaining", result.remaining),
        "X-RateLimit-Reset", result.resetTime)

\* variant: the error's message is sent to the caller
Catch_LeaksDetail(slot, error) ==
    Respond([slot EXCEPT !.caught = error], 500,
            [error |-> "Failed to get response from AI",
             detail |-> error.message])

\* chat.ts:132-135  the catch block
Catch(slot, error) ==
    Respond([slot EXCEPT !.caught = error], 500,
            [error |-> "Failed to get response from AI"])

\* variant: the message is not validated before the upstream call
TryBlock_NoValidation(slot, e) ==
    IF slot.req.body.t # "object"
    THEN Catch(slot, [name |-> "TypeError",
                      message |-> "Cannot destructure property 'message'",
                      status |-> 0])
    ELSE [slot EXCEPT !.pc = "fetch",
                      !.fetchCalls = Append(@, FetchCall(slot.req.body.message, e))]

\* chat.ts:90-118  the try block up to the await of fetch
TryBlock(slot, e) ==
    IF slot.req.body.t # "object"
    THEN \* destructuring `undefined` throws
         Catch(slot, [name |-> "TypeError",
                      message |-> "Cannot destructure property 'message'",
                      status |-> 0])
    ELSE LET message == slot.req.body.message
         IN  IF ~Truthy(message)
             THEN Respond(slot, 400, [error |-> "Message is required"])
             ELSE [slot EXCEPT !.pc = "fetch",
                               !.fetchCalls = Append(@, FetchCall(message, e))]

\* chat.ts:76-88  authentication, then the try block
Authenticate(slot, e) ==
    LET authHeader == slot.req.headers.authorization
        expectedKey == e.BETA_API_KEY
    IN  IF AuthHeaderMissing(authHeader)
        THEN Respond(slot, 401, [error |-> "Authorization header required"])
        ELSE IF KeyMismatch(ProvidedKey(authHeader), expectedKey)
        THEN Respond(slot, 401, [error |-> "Invalid API key"])
        ELSE TryBlock(slot, e)

\* variant: credentials are examined before the rate decision is acted on
AfterRateCheck_AuthFirst(slot, e) ==
    LET authed == Authenticate(
            [slot EXCEPT !.headers = RateLimitHeaders(@, slot.rateLimitResult)], e)
    IN  IF authed.status = 401 THEN authed
        ELSE IF ~slot.rateLimitResult.allowed
        THEN Respond(slot, 429, RateLimitedBody(slot.rateLimitResult))
        ELSE authed

\* variant: the 429 response is sent without `return`
AfterRateCheck_NoReturn(slot, e) ==
    LET denied == IF ~slot.rateLimitResult.allowed
                  THEN Respond(slot, 429, RateLimitedBody(slot.rateLimitResult))
                  ELSE slot
    IN  Authenticate(
            [denied EXCEPT !.headers = RateLimitHeaders(@, slot.rateLimitResult)], e)

\* chat.ts:59-74  after the rate check
AfterRateCheck(slot, e) ==
    IF ~slot.rateLimitResult.allowed
    THEN Respond(slot, 429, RateLimitedBody(slot.rateLimitResult))
    ELSE Authenticate(
             [slot EXCEPT !.headers = RateLimitHeaders(@, slot.rateLimitResult)], e)

\* history: the fixed window a rate check at time t of key k falls in, with
\* the check counted in it (counters stop two past the limit)
CountInWindow(w, k, t, allowed) ==
    LET one == IF allowed THEN 1 ELSE 0
    IN  IF k \notin DOMAIN w \/ t > w[k].start + windowMs
        THEN [start |-> t, n |-> 1, admitted |-> one]
        ELSE [w[k] EXCEPT
                !.n = IF @ > maxRequests + 1 THEN @ ELSE @ + 1,
                !.admitted = IF @ > maxRequests + 1 THEN @ ELSE @ + one]

\* history: one more request of key k admitted at time t
CountAdmit(h, k, t, allowed) ==
    IF h.on /\ allowed
    THEN [h EXCEPT !.at = MapSet(@, <<k, t>>,
                            IF <<k, t>> \in DOMAIN @ THEN @[<<k, t>>] + 1 ELSE 1)]
    ELSE h

\* variant: the rate check runs before the method is looked at
HandlerStart_RateCheckFirst(p, req) ==
    /\ inv[p].pc \in {"idle", "done"}
    /\ LET clientIP == clientIPOf(req)
           checked == checkRateLimit(clientIP.s, now, rateLimitMap)
           counted == CountInWindow(window, clientIP.s, now,
                                    checked.result.allowed)
           slot == [Idle EXCEPT
                      !.req = req,
                      !.clientIP = clientIP,
                      !.rateLimitResult = checked.result,
                      !.at = now,
                      !.pre = IF clientIP.s \in DOMAIN rateLimitMap
                              THEN rateLimitMap[clientIP.s] ELSE NoEntry,
                      !.nth = counted.n]
       IN  /\ rateLimitMap' = checked.map
           /\ window' = MapSet(window, clientIP.s, counted)
           /\ admits' = CountAdmit(admits, clientIP.s, now,
                                   checked.result.allowed)
           /\ inv' = [inv EXCEPT ![p] =
                        IF req.method # "POST"
                        THEN Respond([Idle EXCEPT !.req = req], 405,
                                     [error |-> "Method not allowed"])
                        ELSE AfterRateCheck(slot, env)]
    /\ UNCHANGED <<now, env>>

\* variant: a request rejected with 401 or 400 is not counted
HandlerStart_RefundsRejected(p, req) ==
    /\ inv[p].pc \in {"idle", "done"}
    /\ IF req.method # "POST"
       THEN /\ inv' = [inv EXCEPT ![p] =
                         Respond([Idle EXCEPT !.req = req], 405,
                                 [error |-> "Method not allowed"])]
            /\ UNCHANGED <<rateLimitMap, window, admits>>
       ELSE LET clientIP == clientIPOf(req)
                checked == checkRateLimit(clientIP.s, now, rateLimitMap)
                counted == CountInWindow(window, clientIP.s, now,
                                         checked.result.allowed)
                slot == [Idle EXCEPT
                           !.req = req,
                           !.clientIP = clientIP,
                           !.rateLimitResult = checked.result,
                           !.at = now,
                           !.pre = IF clientIP.s \in DOMAIN rateLimitMap
                                   THEN rateLimitMap[clientIP.s] ELSE NoEntry,
                           !.nth = counted.n]
                after == AfterRateCheck(slot, env)
            IN  /\ rateLimitMap' = IF after.status \in {400, 401}
                                   THEN rateLimitMap ELSE checked.map
                /\ window' = MapSet(window, clientIP.s, counted)
                /\ admits' = CountAdmit(admits, clientIP.s, now,
                                        checked.result.allowed)
                /\ inv' = [inv EXCEPT ![p] = after]
    /\ UNCHANGED <<now, env>>

\* chat.ts:48-118  a request arrives and runs to its response or first await
HandlerStart(p, req) ==
    /\ inv[p].pc \in {"idle", "done"}
    /\ IF req.method # "POST"
       THEN /\ inv' = [inv EXCEPT ![p] =
                         Respond([Idle EXCEPT !.req = req], 405,
                                 [error |-> "Method not allowed"])]
            /\ UNCHANGED <<rateLimitMap, window, admits>>
       ELSE LET clientIP == clientIPOf(req)
                checked == checkRateLimit(clientIP.s, now, rateLimitMap)
                counted == CountInWindow(window, clientIP.s, now,
                                         checked.result.allowed)
                slot == [Idle EXCEPT
                           !.req = req,
                           !.clientIP = clientIP,
                           !.rateLimitResult = checked.result,
                           !.at = now,
                           !.pre = IF clientIP.s \in DOMAIN rateLimitMap
                                   THEN rateLimitMap[clientIP.s] ELSE NoEntry,
                           !.nth = counted.n]
            IN  /\ rateLimitMap' = checked.map
                /\ window' = MapSet(window, clientIP.s, counted)
                /\ admits' = CountAdmit(admits, clientIP.s, now,
                                        checked.result.allowed)
                /\ inv' = [inv EXCEPT ![p] = AfterRateCheck(slot, env)]
    /\ UNCHANGED <<now, env>>

\* chat.ts:97,120-122  after `await fetch(...)`
AfterFetch(slot) ==
    IF slot.fetched.kind = "rejected"
    THEN Catch(slot, [name |-> "TypeError", message |-> "fetch failed",
                      status |-> 0])
    ELSE IF ~slot.fetched.ok
    THEN Catch(slot, [name |-> "Error", message |-> "OpenAI API error: ",
                      status |-> slot.fetched.status])
    ELSE [slot EXCEPT !.pc = "json"]

\* the fetch promise settles
FetchSettle(p, outcome) ==
    /\ inv[p].pc = "fetch"
    /\ inv' = [inv EXCEPT ![p] = AfterFetch([@ EXCEPT !.fetched = outcome])]
    /\ UNCHANGED <<rateLimitMap, now, env, window, admits>>

\* chat.ts:125  data.choices[0]?.message?.content
FirstContent(data) ==
    IF Len(data.choices) = 0 THEN JsUndefined
    ELSE IF ~data.choices[1].hasMessage THEN JsUndefined
    ELSE data.choices[1].content

\* variant: the first choice's message object is returned, not its content
AfterJson_ReturnsMessage(slot) ==
    IF slot.parsed.kind = "rejected" \/ ~slot.parsed.data.hasChoices
    THEN Catch(slot, [name |-> "Error", message |-> "", status |-> 0])
    ELSE IF ~Truthy(FirstContent(slot.parsed.data))
    THEN Catch(slot, [name |-> "Error", message |-> "No response from OpenAI",
                      status |-> 0])
    ELSE Respond(slot, 200,
                 [response |-> [content |-> FirstContent(slot.parsed.data)]])

\* chat.ts:124-131  after `await response.json()`
AfterJson(slot) ==
    IF slot.parsed.kind = "rejected"
    THEN Catch(slot, [name |-> "SyntaxError", message |-> "Unexpected token",
                      status |-> 0])
    ELSE IF ~slot.parsed.data.hasChoices
    THEN \* `data.choices[0]` of an undefined `choices` throws
         Catch(slot, [name |-> "TypeError",
                      message |-> "Cannot read properties of undefined",
                      status |-> 0])
    ELSE LET aiResponse == FirstContent(slot.parsed.data)
         IN  IF ~Truthy(aiResponse)
             THEN Catch(slot, [name |-> "Error",
                               message |-> "No response from OpenAI",
                               status |-> 0])
             ELSE Respond(slot, 200, [response |-> aiResponse])

\* the body promise settles
JsonSettle(p, outcome) ==
    /\ inv[p].pc = "json"
    /\ inv' = [inv EXCEPT ![p] = AfterJson([@ EXCEPT !.parsed = outcome])]
    /\ UNCHANGED <<rateLimitMap, now, env, window, admits>>

\* Date.now() advances
Tick ==
    /\ now < MaxNow
    /\ now' = now + 1
    /\ UNCHANGED <<rateLimitMap, env, inv, window, admits>>


----------------------------------------------------------------------------
(* Inputs *)

Secret == <<"k">>

Hola == <<"h", "o", "l", "a">>

Envs ==
    {[BETA_API_KEY |-> k, OPENAI_API_KEY |-> Str(<<"o">>)] :
        k \in {Str(Secret), JsUndefined}}

AuthHeaders ==
    {JsUndefined,
     Str(<<>>),
     Str(Bearer \o Secret),
     Str(Bearer \o <<"x">>),
     Str(<<"B", "e", "a", "r", "e", "r">> \o Secret),
     Str(<<"X", " ">> \o Secret),
     Str(<<"x">> \o Bearer \o Secret)}

NoRequestBody == [t |-> "undefined", message |-> JsUndefined]

Bodies ==
    {NoRequestBody}
    \cup {[t |-> "object", message |-> m] :
            m \in {JsUndefined, Str(<<>>), Num(0), Str(Hola)}}

\* a request of the client at address a
ClientRequest(m, h, b) ==
    [method |-> m,
     headers |-> [xForwardedFor |-> Str(<<"a">>), xRealIp |-> JsUndefined,
                  authorization |-> h],
     remoteAddress |-> Str(<<"a">>),
     body |-> b]

\* requests of one client that differ in method, credentials and body
Requests ==
    {ClientRequest("POST", h, b) : h \in AuthHeaders, b \in Bodies}
    \cup {ClientRequest("GET", Str(Bearer \o Secret),
                        [t |-> "object", message |-> Str(Hola)]),
          ClientRequest("GET", JsUndefined, NoRequestBody)}

FetchOutcomes ==
    {[kind |-> "rejected", ok |-> FALSE, status |-> 0],
     [kind |-> "response", ok |-> FALSE, status |-> 401],
     [kind |-> "response", ok |-> FALSE, status |-> 500],
     [kind |-> "response", ok |-> TRUE, status |-> 200]}

Contents == {JsUndefined, JsNull, Str(<<>>), Str(<<"c", "a", "t">>)}

Datas ==
    {NoData,
     [hasChoices |-> TRUE, choices |-> <<>>],
     [hasChoices |-> TRUE,
      choices |-> <<[hasMessage |-> FALSE, content |-> JsUndefined]>>]}
    \cup {[hasChoices |-> TRUE,
           choices |-> <<[hasMessage |-> TRUE, content |-> c]>>] :
            c \in Contents}

JsonOutcomes ==
    {[kind |-> "rejected", data |-> NoData]}
    \cup {[kind |-> "data", data |-> d] : d \in Datas}

----------------------------------------------------------------------------
(* One invocation at a time: the handler is called again only after the    *)
(* previous call has responded.                                            *)

Init ==
    /\ rateLimitMap = EmptyMap
    /\ now = 0
    /\ env \in Envs
    /\ inv = [p \in Procs |-> Idle]
    /\ window = EmptyMap
    /\ admits = [on |-> FALSE, at |-> EmptyMap]

Next ==
    \/ \E req \in Requests : HandlerStart(1, req)
    \/ \E o \in FetchOutcomes : FetchSettle(1, o)
    \/ \E o \in JsonOutcomes : JsonSettle(1, o)
    \/ Tick

Spec == Init /\ [][Next]_vars


\* The same, with every upstream promise settling in the end: a pending
\* fetch and a pending response.json() each resolve or reject.
SpecLive ==
    /\ Init
    /\ [][Next]_vars
    /\ WF_vars(\E o \in FetchOutcomes : FetchSettle(1, o))
    /\ WF_vars(\E o \in JsonOutcomes : JsonSettle(1, o))

----------------------------------------------------------------------------
(* Several clients: requests that differ in where the client address comes *)
(* from, with and without credentials.                                     *)

ForwardedFors == {JsUndefined, Str(<<"a">>), Str(<<"b", ",", "a">>)}

AddressRequests ==
    {[method |-> "POST",
      headers |-> [xForwardedFor |-> f, xRealIp |-> r, authorization |-> h],
      remoteAddress |-> Str(<<"a">>),
      body |-> [t |-> "object", message |-> Str(Hola)]] :
        f \in ForwardedFors, r \in {JsUndefined, Str(<<"b">>)},
        h \in {JsUndefined, Str(Bearer \o Secret)}}

Cat == [hasChoices |-> TRUE,
        choices |-> <<[hasMessage |-> TRUE, content |-> Str(<<"c", "a", "t">>)]>>]

InitClients ==
    /\ rateLimitMap = EmptyMap
    /\ now = 0
    /\ env = [BETA_API_KEY |-> Str(Secret), OPENAI_API_KEY |-> Str(<<"o">>)]
    /\ inv = [p \in Procs |-> Idle]
    /\ window = EmptyMap
    /\ admits = [on |-> FALSE, at |-> EmptyMap]

NextClients ==
    \/ \E req \in AddressRequests : HandlerStart(1, req)
    \/ \E o \in {[kind |-> "rejected", ok |-> FALSE, status |-> 0],
                 [kind |-> "response", ok |-> TRUE, status |-> 200]} :
          FetchSettle(1, o)
    \/ JsonSettle(1, [kind |-> "data", data |-> Cat])
    \/ Tick

SpecClients == InitClients /\ [][NextClients]_vars


----------------------------------------------------------------------------
(* Where the client key comes from: requests without credentials that      *)
(* differ in their address headers and peer address, arriving at one       *)
(* reading of the clock.                                                   *)

KeyRequests ==
    {[method |-> "POST",
      headers |-> [xForwardedFor |-> f, xRealIp |-> r,
                   authorization |-> JsUndefined],
      remoteAddress |-> c,
      body |-> [t |-> "object", message |-> Str(Hola)]] :
        f \in {JsUndefined, Str(<<>>), Str(<<"a">>), Str(<<"a", ",", "b">>),
               Str(<<",", "a">>), Str(<<"b", ",", "a">>)},
        r \in {JsUndefined, Str(<<>>), Str(<<"b">>)},
        c \in {JsUndefined, Str(<<"a">>)}}

\* requests arriving within one millisecond
NextKeys == \E req \in KeyRequests : HandlerStart(1, req)

SpecKeys == InitClients /\ [][NextKeys]_vars

----------------------------------------------------------------------------
(* Bursts: two clients without credentials send requests as the clock      *)
(* advances; every admission of the rate check is recorded with its time.  *)

BurstRequests ==
    {[method |-> "POST",
      headers |-> [xForwardedFor |-> f, xRealIp |-> JsUndefined,
                   authorization |-> h],
      remoteAddress |-> Str(<<"a">>),
      body |-> [t |-> "object", message |-> Str(Hola)]] :
        f \in {JsUndefined, Str(<<"b">>)},
        h \in {JsUndefined, Str(Bearer \o <<"x">>)}}

InitBurst ==
    /\ rateLimitMap = EmptyMap
    /\ now = 0
    /\ env = [BETA_API_KEY |-> Str(Secret), OPENAI_API_KEY |-> Str(<<"o">>)]
    /\ inv = [p \in Procs |-> Idle]
    /\ window = EmptyMap
    /\ admits = [on |-> TRUE, at |-> EmptyMap]

NextBurst ==
    \/ \E req \in BurstRequests : HandlerStart(1, req)
    \/ Tick

SpecBurst == InitBurst /\ [][NextBurst]_vars

----------------------------------------------------------------------------
(* Overlapping invocations: a second call of the handler may start while   *)
(* the first is suspended at one of its awaits.                            *)

OverlapRequests ==
    {ClientRequest("POST", h, [t |-> "object", message |-> Str(Hola)]) :
        h \in {JsUndefined, Str(Bearer \o Secret)}}

NextOverlap ==
    \/ \E p \in Procs, req \in OverlapRequests : HandlerStart(p, req)
    \/ \E p \in Procs :
          FetchSettle(p, [kind |-> "response", ok |-> TRUE, status |-> 200])
    \/ \E p \in Procs : JsonSettle(p, [kind |-> "data", data |-> Cat])
    \/ Tick

SpecOverlap == InitClients /\ [][NextOverlap]_vars

----------------------------------------------------------------------------
(* Properties of the rate limiter, checked under SpecClients *)

\* the invocation has run the rate check (it was a POST and has started)
Checked(s) == s.pc # "idle" /\ s.req.method = "POST"

\* C1: requests of one client key checked one after another within one
\* window: the Nth (1 <= N <= maxRequests) passes the rate check with
\* remaining = maxRequests - N; the next one in that window is denied with
\* status 429 and error 'Rate limit exceeded'.
C1_NthAdmittedNextDenied ==
    \A p \in Procs :
        LET s == inv[p]
        IN  Checked(s) =>
              /\ s.nth \in 1..maxRequests =>
                    /\ s.rateLimitResult.allowed
                    /\ s.rateLimitResult.remaining = maxRequests - s.nth
                    /\ s.status # 429
              /\ s.nth > maxRequests =>
                    /\ ~s.rateLimitResult.allowed
                    /\ s.pc = "done"
                    /\ s.status = 429
                    /\ s.body.error = "Rate limit exceeded"

\* the (maxRequests+1)th request of client b in a window has been denied
\* while client a has an entry of its own
C1_Witness ==
    \E p \in Procs :
        /\ Checked(inv[p])
        /\ inv[p].clientIP.s = <<"b">>
        /\ inv[p].nth = maxRequests + 1
        /\ inv[p].status = 429
        /\ <<"a">> \in DOMAIN rateLimitMap

\* C2: every stored entry has 0 <= count <= maxRequests.
C2_CountWithinLimit ==
    \A k \in DOMAIN rateLimitMap :
        /\ rateLimitMap[k].count >= 0
        /\ rateLimitMap[k].count <= maxRequests

\* a full entry whose client has just been denied
C2_Witness ==
    \E p \in Procs :
        /\ Checked(inv[p])
        /\ inv[p].status = 429
        /\ rateLimitMap[inv[p].clientIP.s].count = maxRequests

\* C3: a request checked at a time strictly after the stored entry's
\* resetTime is request #1 of a new window: admitted, stored count 1,
\* remaining = maxRequests - 1, resetTime = now + windowMs, whatever the
\* previous window held.
C3_FreshWindowAfterReset ==
    \A p \in Procs :
        LET s == inv[p]
        IN  (Checked(s) /\ s.pre # NoEntry /\ s.at > s.pre.resetTime) =>
              /\ s.rateLimitResult =
                    [allowed |-> TRUE, remaining |-> maxRequests - 1,
                     resetTime |-> s.at + windowMs]
              /\ s.status # 429
              /\ rateLimitMap[s.clientIP.s] =
                    [count |-> 1, resetTime |-> s.at + windowMs]

\* the first request after the reset time of a window that was full
C3_Witness ==
    \E p \in Procs :
        /\ Checked(inv[p])
        /\ inv[p].pre.count = maxRequests
        /\ inv[p].at > inv[p].pre.resetTime
        /\ inv[p].rateLimitResult.allowed


----------------------------------------------------------------------------
(* Properties of the handler, checked under Spec *)

\* the invocation has responded
Responded(s) == s.pc = "done"

\* the request was within the quota of its window: one of the window's
\* first maxRequests rate-checked requests
WithinQuota(s) == Checked(s) /\ s.nth \in 1..maxRequests

\* the Authorization header reads 'Bearer <token>'
HasBearerForm(h) ==
    /\ h.t = "string"
    /\ Len(h.s) >= Len(Bearer)
    /\ \A i \in 1..Len(Bearer) : h.s[i] = Bearer[i]

\* the characters after 'Bearer '
TokenOf(h) == SubSeq(h.s, Len(Bearer) + 1, Len(h.s))

\* the token is the configured secret
TokenIsSecret(h, e) ==
    /\ HasBearerForm(h)
    /\ e.BETA_API_KEY.t = "string"
    /\ TokenOf(h) = e.BETA_API_KEY.s

\* no body, no message field, or the empty string
MessageAbsentOrEmpty(req) ==
    \/ req.body.t = "undefined"
    \/ req.body.message = JsUndefined
    \/ req.body.message = Str(<<>>)

\* requests counted so far in the window of the client of invocation s
CountedInWindow(s) ==
    LET n == window[s.clientIP.s].n
    IN  IF n > maxRequests THEN maxRequests ELSE n

\* the three rate-limit headers are set and agree with the client's window
RateLimitHeadersConsistent(s) ==
    /\ {"X-RateLimit-Limit", "X-RateLimit-Remaining", "X-RateLimit-Reset"}
          \subseteq DOMAIN s.headers
    /\ s.headers["X-RateLimit-Limit"] = maxRequests
    /\ s.headers["X-RateLimit-Remaining"] = maxRequests - CountedInWindow(s)
    /\ s.headers["X-RateLimit-Reset"] = window[s.clientIP.s].start + windowMs

\* C4 as stated: every non-405 response (200, 400, 401, 429, 500) carries
\* the three rate-limit headers, consistent with the client's window.
C4_HeadersOnEveryPostResponse ==
    \A p \in Procs :
        (Responded(inv[p]) /\ inv[p].status # 405) =>
            RateLimitHeadersConsistent(inv[p])

\* C4, amended: every response to a POST request that passed the rate check
\* (200, 400, 401, 500) carries the three rate-limit headers with
\* Limit = maxRequests, Remaining = maxRequests - requests counted so far in
\* the window, Reset = the window's resetTime; a 429 response carries none.
C4_HeadersOnAdmittedResponses ==
    \A p \in Procs :
        /\ (Responded(inv[p]) /\ inv[p].status \in {200, 400, 401, 500}) =>
              RateLimitHeadersConsistent(inv[p])
        /\ (Responded(inv[p]) /\ inv[p].status = 429) =>
              inv[p].headers = NoHeaders

\* an error response to the last admitted request of a window
C4_Witness ==
    \E p \in Procs :
        /\ Responded(inv[p])
        /\ inv[p].status = 401
        /\ inv[p].nth = maxRequests
        /\ RateLimitHeadersConsistent(inv[p])

\* C5: the upstream API is called for a request only if it is a POST, is
\* within the quota, has a 'Bearer <token>' header whose token is the
\* secret, and a non-empty message; a request answered 405, 429, 401 or 400
\* has made no upstream call.
C5_UpstreamOnlyAfterAllChecks ==
    \A p \in Procs :
        LET s == inv[p]
        IN  /\ s.fetchCalls # <<>> =>
                  /\ s.req.method = "POST"
                  /\ WithinQuota(s)
                  /\ HasBearerForm(s.req.headers.authorization)
                  /\ TokenIsSecret(s.req.headers.authorization, env)
                  /\ ~MessageAbsentOrEmpty(s.req)
            /\ s.status \in {405, 429, 401, 400} => s.fetchCalls = <<>>

\* an invocation suspended at its one upstream call
C5_Witness ==
    \E p \in Procs : inv[p].pc = "fetch" /\ Len(inv[p].fetchCalls) = 1

\* C6: the response is that of the earliest failing check in the order
\* method (405), rate limit (429), header form (401 'Authorization header
\* required'), token (401 'Invalid API key'), all of them before the
\* message check.
C6_EarliestFailingCheckAnswers ==
    \A p \in Procs :
        LET s == inv[p]
            h == s.req.headers.authorization
        IN  Responded(s) =>
              /\ s.req.method # "POST" =>
                    s.status = 405 /\ s.body = [error |-> "Method not allowed"]
              /\ (Checked(s) /\ ~WithinQuota(s)) =>
                    s.status = 429 /\ s.body.error = "Rate limit exceeded"
              /\ (WithinQuota(s) /\ ~HasBearerForm(h)) =>
                    /\ s.status = 401
                    /\ s.body = [error |-> "Authorization header required"]
              /\ (WithinQuota(s) /\ HasBearerForm(h) /\ ~TokenIsSecret(h, env)) =>
                    s.status = 401 /\ s.body = [error |-> "Invalid API key"]

\* a request over the quota, without credentials and without a message
C6_Witness ==
    \E p \in Procs :
        /\ Responded(inv[p])
        /\ inv[p].status = 429
        /\ ~HasBearerForm(inv[p].req.headers.authorization)
        /\ MessageAbsentOrEmpty(inv[p].req)

\* C7: for a POST within the quota: header missing or not starting with
\* 'Bearer ' gives 401 'Authorization header required'; a 'Bearer ' header
\* whose token differs from the secret gives 401 'Invalid API key'; a token
\* equal to the secret gives no 401.
C7_AuthErrors ==
    \A p \in Procs :
        LET s == inv[p]
            h == s.req.headers.authorization
            bearer == h.t = "string" /\ StartsWith(h.s, Bearer)
        IN  WithinQuota(s) =>
              /\ ~bearer =>
                    /\ s.status = 401
                    /\ s.body.error = "Authorization header required"
              /\ (bearer /\ Str(TokenOf(h)) # env.BETA_API_KEY) =>
                    s.status = 401 /\ s.body.error = "Invalid API key"
              /\ (bearer /\ Str(TokenOf(h)) = env.BETA_API_KEY) =>
                    s.status # 401

\* the secret sent under another scheme is answered as a missing header
C7_Witness ==
    \E p \in Procs :
        /\ WithinQuota(inv[p])
        /\ inv[p].req.headers.authorization = Str(<<"X", " ">> \o Secret)
        /\ env.BETA_API_KEY = Str(Secret)
        /\ inv[p].status = 401
        /\ inv[p].body.error = "Authorization header required"

\* C8: a POST within the quota with the right token whose message is absent
\* (no field, or no body) or empty is answered 400 'Message is required'
\* without an upstream call.
C8_MissingMessageIs400 ==
    \A p \in Procs :
        LET s == inv[p]
        IN  (/\ WithinQuota(s)
             /\ TokenIsSecret(s.req.headers.authorization, env)
             /\ MessageAbsentOrEmpty(s.req)) =>
                /\ s.status = 400
                /\ s.body = [error |-> "Message is required"]
                /\ s.fetchCalls = <<>>

\* the upstream call failed in one of the four named ways
UpstreamFailed(s) ==
    \/ s.fetched.kind = "rejected"
    \/ s.fetched.kind = "response" /\ ~s.fetched.ok
    \/ /\ s.parsed.kind = "data"
       /\ s.parsed.data.hasChoices
       /\ \/ s.parsed.data.choices = <<>>
          \/ ~s.parsed.data.choices[1].hasMessage
          \/ s.parsed.data.choices[1].content \in {JsNull, JsUndefined}

\* C9: a non-ok status, a rejected fetch, a first choice with null or
\* missing content and an empty choices list all give status 500 with the
\* body exactly { error: 'Failed to get response from AI' }.
C9_UpstreamFailuresAreOne500 ==
    \A p \in Procs :
        LET s == inv[p]
        IN  (s.fetchCalls # <<>> /\ UpstreamFailed(s)) =>
                /\ Responded(s)
                /\ s.status = 500
                /\ s.body = [error |-> "Failed to get response from AI"]

\* an ok upstream response with an empty choices list has been answered 500
C9_Witness ==
    \E p \in Procs :
        /\ Responded(inv[p])
        /\ inv[p].status = 500
        /\ inv[p].fetched.ok
        /\ inv[p].parsed = [kind |-> "data",
                            data |-> [hasChoices |-> TRUE, choices |-> <<>>]]

\* the upstream call gave ok and a first choice with a string content
UpstreamGaveString(s) ==
    /\ s.fetched.kind = "response" /\ s.fetched.ok
    /\ s.parsed.kind = "data"
    /\ s.parsed.data.hasChoices
    /\ s.parsed.data.choices # <<>>
    /\ s.parsed.data.choices[1].hasMessage
    /\ s.parsed.data.choices[1].content.t = "string"

\* C10 as stated: for every string c the upstream returns as the first
\* choice's content, the response is 200 { response: c }.
C10_EveryContentReturned ==
    \A p \in Procs :
        LET s == inv[p]
        IN  UpstreamGaveString(s) =>
                /\ s.status = 200
                /\ s.body = [response |-> s.parsed.data.choices[1].content]

\* C10, amended: for every non-empty string c the upstream returns as the
\* first choice's content, the response is 200 { response: c }, c unmodified.
C10_NonEmptyContentReturned ==
    \A p \in Procs :
        LET s == inv[p]
        IN  (UpstreamGaveString(s) /\ s.parsed.data.choices[1].content.s # <<>>) =>
                /\ Responded(s)
                /\ s.status = 200
                /\ s.body = [response |-> s.parsed.data.choices[1].content]

\* the upstream content 'cat' has been returned
C10_Witness ==
    \E p \in Procs :
        /\ inv[p].status = 200
        /\ inv[p].body = [response |-> Str(<<"c", "a", "t">>)]
        /\ inv[p].fetchCalls # <<>>

----------------------------------------------------------------------------
(* Properties of the upstream call and of the handler's life, under Spec *)

\* the fetch arguments the repository's test of the upstream call expects
\* for message m (part_000:215-236)
TestedFetchCall(m, e) ==
    [url |-> "https://api.openai.com/v1/chat/completions",
     method |-> "POST",
     headers |-> [contentType |-> "application/json",
                  authorization |-> Bearer \o e.OPENAI_API_KEY.s],
     body |-> [model |-> "gpt-4o-mini",
               messages |-> <<
                 [role |-> "system",
                  content |-> "You are a helpful Spanish language learning assistant. The user message fills in the blank: \"explain or translate what _____ means in English.\" IMPORTANT: do not repeat original Spanish word or phrase in response."],
                 [role |-> "user", content |-> m] >>,
               max_tokens |-> 500,
               temperature |-> "0.7"]]

\* C11: a request that reaches the upstream call with message m calls the
\* completion endpoint with model 'gpt-4o-mini', the system turn 'You are a
\* helpful Spanish language learning assistant. ...', one user turn with m
\* verbatim, max_tokens 500, temperature 0.7 and the configured upstream key.
C11_UpstreamRequestAsTested ==
    \A p \in Procs :
        \A i \in 1..Len(inv[p].fetchCalls) :
            inv[p].fetchCalls[i] =
                TestedFetchCall(inv[p].req.body.message, env)

\* C11, what the code does hold to: the endpoint, the method, the headers
\* with the configured key, the user turn with m verbatim, max_tokens and
\* temperature are as stated; only model and system turn differ.
C11_AllButModelAndPrompt ==
    \A p \in Procs :
        \A i \in 1..Len(inv[p].fetchCalls) :
            LET c == inv[p].fetchCalls[i]
                t == TestedFetchCall(inv[p].req.body.message, env)
            IN  /\ c.url = t.url /\ c.method = t.method /\ c.headers = t.headers
                /\ c.body.messages[2] = t.body.messages[2]
                /\ Len(c.body.messages) = 2
                /\ c.body.max_tokens = t.body.max_tokens
                /\ c.body.temperature = t.body.temperature
                /\ c.body.model = "gpt-5-mini"
                /\ c.body.messages[1].role = "system"
                /\ c.body.messages[1].content # t.body.messages[1].content

----------------------------------------------------------------------------
(* Overlapping invocations, under SpecOverlap *)

\* C12: with invocations suspended only at their awaits and the rate check
\* run as one step, for every client key the stored count is the number of
\* requests admitted in the key's window, and is at most maxRequests, in
\* every interleaving.
C12_NoLostUpdate ==
    \A k \in DOMAIN rateLimitMap :
        /\ rateLimitMap[k].count = window[k].admitted
        /\ rateLimitMap[k].count <= maxRequests

\* two admitted requests of one client are suspended at their awaits at
\* the same time, and both are counted
C12_Witness ==
    /\ inv[1].pc = "json"
    /\ inv[2].pc = "fetch"
    /\ inv[1].clientIP = inv[2].clientIP
    /\ inv[1].rateLimitResult.resetTime = inv[2].rateLimitResult.resetTime
    /\ rateLimitMap[inv[1].clientIP.s].count = 2

----------------------------------------------------------------------------
(* Further properties of the handler, under Spec *)

\* C13: a request whose method is not POST is answered 405
\* { error: 'Method not allowed' }, with no rate-limit header and no
\* upstream call, and the step that handles it leaves the rate-limit map
\* as it was.
C13_NonPostTouchesNothing ==
    [][\A p \in Procs :
          (inv'[p] # inv[p] /\ inv'[p].req.method # "POST") =>
              /\ inv'[p].pc = "done"
              /\ inv'[p].sent = 1
              /\ inv'[p].status = 405
              /\ inv'[p].body = [error |-> "Method not allowed"]
              /\ inv'[p].headers = NoHeaders
              /\ inv'[p].fetchCalls = <<>>
              /\ rateLimitMap' = rateLimitMap]_vars

\* a GET has been answered 405 when its client has quota left in an open
\* window
C13_Witness ==
    \E p \in Procs :
        /\ inv[p].status = 405
        /\ inv[p].req.method = "GET"
        /\ clientIPOf(inv[p].req).s \in DOMAIN rateLimitMap
        /\ rateLimitMap[clientIPOf(inv[p].req).s].count < maxRequests
        /\ now <= rateLimitMap[clientIPOf(inv[p].req).s].resetTime

----------------------------------------------------------------------------
(* Further properties of the rate limiter, under SpecClients *)

\* C14: every entry's resetTime is the time its window was created plus
\* windowMs; no step changes it except a request arriving after it has
\* passed, which recomputes it as now + windowMs.
C14_ResetTimeFixedPerWindow ==
    /\ [](\A k \in DOMAIN rateLimitMap :
             rateLimitMap[k].resetTime = window[k].start + windowMs)
    /\ [][\A k \in DOMAIN rateLimitMap' :
             IF k \in DOMAIN rateLimitMap
             THEN rateLimitMap'[k].resetTime # rateLimitMap[k].resetTime =>
                     /\ now > rateLimitMap[k].resetTime
                     /\ rateLimitMap'[k].resetTime = now + windowMs
             ELSE rateLimitMap'[k].resetTime = now + windowMs]_vars

\* a request has been denied at a time after its window was created, and
\* the window's resetTime is still the creation time plus windowMs
C14_Witness ==
    \E p \in Procs :
        /\ Checked(inv[p])
        /\ inv[p].status = 429
        /\ inv[p].at > window[inv[p].clientIP.s].start
        /\ rateLimitMap[inv[p].clientIP.s].resetTime =
              window[inv[p].clientIP.s].start + windowMs

\* C15: a denied check leaves the client's entry as it was (same count,
\* same resetTime), returns remaining = 0 and that resetTime; after any
\* number of consecutive denials the count is maxRequests.
C15_DenialChangesNothing ==
    \A p \in Procs :
        LET s == inv[p]
        IN  (Checked(s) /\ ~s.rateLimitResult.allowed) =>
              /\ s.pre # NoEntry
              /\ rateLimitMap[s.clientIP.s] = s.pre
              /\ s.rateLimitResult =
                    [allowed |-> FALSE, remaining |-> 0,
                     resetTime |-> s.pre.resetTime]
              /\ rateLimitMap[s.clientIP.s].count = maxRequests

\* the second denial in a row in one window
C15_Witness ==
    \E p \in Procs :
        /\ Checked(inv[p])
        /\ ~inv[p].rateLimitResult.allowed
        /\ inv[p].nth = maxRequests + 2
        /\ rateLimitMap[inv[p].clientIP.s].count = maxRequests

----------------------------------------------------------------------------
(* The life of an invocation, under SpecLive *)

\* C16: an invocation sends exactly one response when it ends and none
\* before, and makes at most one upstream call whatever that call's
\* outcome; if the upstream promises settle, an invocation waiting for the
\* upstream gets its response.
C16_OneResponseOneCall ==
    /\ [](\A p \in Procs :
             /\ inv[p].sent = (IF inv[p].pc = "done" THEN 1 ELSE 0)
             /\ Len(inv[p].fetchCalls) <= 1
             /\ inv[p].pc = "json" => Len(inv[p].fetchCalls) = 1)
    /\ \A p \in Procs :
          (inv[p].pc \in {"fetch", "json"}) ~> (inv[p].pc = "done")

\* an upstream failure has been answered, once, after a single call
C16_Witness ==
    \E p \in Procs :
        /\ inv[p].pc = "done"
        /\ inv[p].sent = 1
        /\ inv[p].status = 500
        /\ inv[p].fetched.kind = "response"
        /\ Len(inv[p].fetchCalls) = 1

----------------------------------------------------------------------------
(* The client key, under SpecKeys *)

\* the header or address is there (whatever its value)
Present(v) == v.t # "undefined"

\* the first comma-separated element of s: its longest prefix without a comma
FirstElement(s) ==
    LET n == CHOOSE i \in 0..Len(s) :
                 /\ \A j \in 1..i : s[j] # ","
                 /\ i < Len(s) => s[i + 1] = ","
    IN  [j \in 1..n |-> s[j]]

Unknown == Str(<<"u", "n", "k", "n", "o", "w", "n">>)

\* the key as C17 states it: each source is used when it is present
KeyByPresence(req) ==
    IF Present(req.headers.xForwardedFor)
    THEN Str(FirstElement(req.headers.xForwardedFor.s))
    ELSE IF Present(req.headers.xRealIp) THEN req.headers.xRealIp
    ELSE IF Present(req.remoteAddress) THEN req.remoteAddress
    ELSE Unknown

\* the key with each source used when it is present and not empty
KeyByNonEmpty(req) ==
    LET given(v) == Present(v) /\ v.s # <<>>
        first == Str(FirstElement(req.headers.xForwardedFor.s))
    IN  IF Present(req.headers.xForwardedFor) /\ first.s # <<>> THEN first
        ELSE IF given(req.headers.xRealIp) THEN req.headers.xRealIp
        ELSE IF given(req.remoteAddress) THEN req.remoteAddress
        ELSE Unknown

\* C17 as stated: the key of the rate check is the first comma-separated
\* element of x-forwarded-for when that header is present, otherwise
\* x-real-ip, otherwise the peer address, otherwise 'unknown'.
C17_KeyByPresence ==
    \A p \in Procs :
        Checked(inv[p]) => inv[p].clientIP = KeyByPresence(inv[p].req)

\* C17, amended: the key is the first comma-separated element of
\* x-forwarded-for when that header is present and the element is not
\* empty, otherwise x-real-ip when present and not empty, otherwise the
\* peer address when present and not empty, otherwise 'unknown'; the entry
\* the request is counted in is the one under that key, so requests with the
\* same non-empty first element share one entry.
C17_KeyByNonEmpty ==
    \A p \in Procs :
        LET s == inv[p]
            k == KeyByNonEmpty(s.req)
        IN  Checked(s) =>
              /\ s.clientIP = k
              /\ k.s \in DOMAIN rateLimitMap
              /\ rateLimitMap[k.s].resetTime = s.rateLimitResult.resetTime
              /\ s.rateLimitResult.allowed =>
                    rateLimitMap[k.s].count =
                        maxRequests - s.rateLimitResult.remaining

\* a request forwarded for 'a,b' with x-real-ip b is the second one counted
\* in the entry of a
C17_Witness ==
    \E p \in Procs :
        /\ Checked(inv[p])
        /\ inv[p].req.headers.xForwardedFor = Str(<<"a", ",", "b">>)
        /\ inv[p].req.headers.xRealIp = Str(<<"b">>)
        /\ inv[p].clientIP = Str(<<"a">>)
        /\ inv[p].nth = 2
        /\ rateLimitMap[<<"a">>].count = 2

----------------------------------------------------------------------------
(* The quota, under Spec *)

\* C18: every POST that passes the rate check takes one unit of its key's
\* quota and keeps it whatever the response is: while the invocation runs
\* and after it has answered 200, 400, 401 or 500, the stored count is one
\* more than before the check, which is the number of requests checked in
\* the window so far.
C18_EveryAdmittedRequestCounts ==
    \A p \in Procs :
        LET s == inv[p]
            before == IF s.pre = NoEntry \/ s.at > s.pre.resetTime
                      THEN 0 ELSE s.pre.count
        IN  (Checked(s) /\ s.rateLimitResult.allowed) =>
              /\ s.clientIP.s \in DOMAIN rateLimitMap
              /\ rateLimitMap[s.clientIP.s].count = before + 1
              /\ rateLimitMap[s.clientIP.s].count = s.nth
              /\ s.pc = "done" => s.status \in {200, 400, 401, 500}

\* a correctly authenticated request with a message is the
\* (maxRequests+1)th of its window and is denied
C18_Witness ==
    \E p \in Procs :
        /\ Checked(inv[p])
        /\ inv[p].status = 429
        /\ inv[p].nth = maxRequests + 1
        /\ TokenIsSecret(inv[p].req.headers.authorization, env)
        /\ ~MessageAbsentOrEmpty(inv[p].req)
        /\ now = 0

----------------------------------------------------------------------------
(* Isolation of the client keys, under SpecClients *)

\* the map with only the entry of key k, if any
OnlyKey(map, k) == [x \in (DOMAIN map) \cap {k} |-> map[x]]

\* C19: a request with key A never creates, changes or removes the entry of
\* another key B, and what the rate check returns for a key is what it
\* returns when the map holds that key's entry alone.
C19_KeysAreIsolated ==
    [][\A p \in Procs :
          (inv'[p] # inv[p] /\ Checked(inv'[p])
             /\ inv[p].pc \in {"idle", "done"}
             /\ inv'[p].at = now) =>
              LET a == inv'[p].clientIP.s
              IN  /\ \A b \in (DOMAIN rateLimitMap) \ {a} :
                        /\ b \in DOMAIN rateLimitMap'
                        /\ rateLimitMap'[b] = rateLimitMap[b]
                  /\ DOMAIN rateLimitMap' = (DOMAIN rateLimitMap) \cup {a}
                  /\ inv'[p].rateLimitResult =
                        checkRateLimit(a, now, OnlyKey(rateLimitMap, a)).result]_vars

\* client b is admitted while client a has used up its quota
C19_Witness ==
    \E p \in Procs :
        /\ Checked(inv[p])
        /\ inv[p].clientIP.s = <<"b">>
        /\ inv[p].rateLimitResult.allowed
        /\ inv[p].nth = 1
        /\ <<"a">> \in DOMAIN rateLimitMap
        /\ rateLimitMap[<<"a">>].count = maxRequests
        /\ now <= rateLimitMap[<<"a">>].resetTime

----------------------------------------------------------------------------
(* Bursts across a window boundary, under SpecBurst *)

\* admissions of key k recorded at time t
AdmittedAt(k, t) ==
    IF <<k, t>> \in DOMAIN admits.at THEN admits.at[<<k, t>>] ELSE 0

RECURSIVE AdmittedIn(_, _, _)
\* admissions of key k at the times from..to
AdmittedIn(k, from, to) ==
    IF from > to THEN 0 ELSE AdmittedAt(k, from) + AdmittedIn(k, from + 1, to)

BurstKeys == {<<"a">>, <<"b">>}

\* C20: for every client key and every interval [t, t'] no longer than
\* windowMs, at most 2*maxRequests - 1 requests of that key are admitted by
\* the rate check at times within the interval.
C20_BurstBelowTwiceLimit ==
    \A k \in BurstKeys : \A t \in 0..MaxNow : \A u \in t..MaxNow :
        u - t <= windowMs => AdmittedIn(k, t, u) <= 2 * maxRequests - 1

\* a burst that straddles a window boundary: more than maxRequests, namely
\* 2*maxRequests - 1, admitted within an interval no longer than windowMs
C20_Witness ==
    \E k \in BurstKeys : \E t \in 0..MaxNow : \E u \in t..MaxNow :
        /\ u - t <= windowMs
        /\ AdmittedIn(k, t, u) = 2 * maxRequests - 1
        /\ AdmittedAt(k, u) = maxRequests
        /\ AdmittedAt(k, t) > 0
        /\ inv[1].clientIP.s = k /\ inv[1].rateLimitResult.allowed

============================================================================
